---- MODULE Spec2Model ----
(***************************************************************************)
(* The ingestion job lifecycle of IngestionService: triggerIngestion,      *)
(* retryJob, updateJobStatus (webhook) and the asynchronous processJob     *)
(* execution, over the ingestion_jobs table.                               *)
(*                                                                         *)
(* Every `await` of the service is a point where another request or        *)
(* execution may run, so every repository read and every repository save   *)
(* is one atomic step, together with the synchronous code that follows it  *)
(* up to the next await.                                                   *)
(***************************************************************************)
EXTENDS Integers, Sequences, FiniteSets, TLC

(***************************************************************************)
(* Bounds of the model.                                                    *)
(***************************************************************************)
\* Requests on the job that the service accepts in the concurrent model, its trigger included.
MaxCalls == 2
\* Retries of the job that the service accepts in the model of concurrent retries.
MaxRetryCalls == 2
\* Clock ticks (milliseconds past the start) in the models that run the clock.
MaxNow == 2
\* Jobs triggered in the model of concurrent triggers.
MaxJobs == 2
\* Jobs in the tables findAll is asked about, and pages asked for.
MaxTable == 7
MaxPage == 3

(***************************************************************************)
(* Program constants.                                                      *)
(***************************************************************************)
TotalSteps == 10
MaxDelayMinutes == 60
DefaultMaxRetries == 3
MaxRetriesLimit == 10
MsPerMinute == 60 * 1000

(***************************************************************************)
(* Nullable values.  A column read from the table is Null or Some(v); a    *)
(* property never assigned on an in-memory object is Undef, and save()     *)
(* leaves the column of an Undef property as the table has it.             *)
(***************************************************************************)
Null == [k |-> "null"]
Undef == [k |-> "undef"]
Some(v) == [k |-> "val", v |-> v]
IsSet(x) == x.k = "val"

\* enum IngestionStatus
PENDING == "pending"
PROCESSING == "processing"
COMPLETED == "completed"
FAILED == "failed"
RETRYING == "retrying"
IngestionStatus == {PENDING, PROCESSING, COMPLETED, FAILED, RETRYING}

\* enum IngestionType
IngestionType == {"ocr", "text_extraction", "document_classification", "data_extraction"}

\* The nullable columns of IngestionJob without a default.
NullableColumns ==
    {"errorMessage", "outputData", "externalJobId", "startedAt", "completedAt", "nextRetryAt"}

(***************************************************************************)
(* The documents table: document i is owned by user DocumentOwner[i].      *)
(***************************************************************************)
DocumentOwner == <<1, 1, 2>>

\* documentRepository.find({ where: { id: In(ids) } }): each matching row once.
FindDocuments(ids) ==
    SelectSeq([i \in 1..Len(DocumentOwner) |-> i],
              LAMBDA d : \E i \in 1..Len(ids) : ids[i] = d)

NoError == [error |-> "none", message |-> ""]
QueryFailed(msg) == [error |-> "QueryFailedError", message |-> msg]
BadRequest(msg) == [error |-> "BadRequestException", message |-> msg]
NotFound(msg) == [error |-> "NotFoundException", message |-> msg]

\* validateDocuments: the exception it throws, or NoError.
ValidateDocuments(documentIds, userId) ==
    LET documents == FindDocuments(documentIds) IN
    IF Len(documents) # Len(documentIds)
    THEN BadRequest("Some documents not found")
    ELSE IF \E i \in 1..Len(documents) : DocumentOwner[documents[i]] # userId
         THEN BadRequest("Access denied to some documents")
         ELSE NoError

(***************************************************************************)
(* Pure helpers of the service.                                            *)
(***************************************************************************)
RECURSIVE Pow2(_)
Pow2(n) == IF n = 0 THEN 1 ELSE 2 * Pow2(n - 1)

Min(a, b) == IF a < b THEN a ELSE b

\* Math.round(n / d) for n >= 0, d > 0.
Round(n, d) == (2 * n + d) \div (2 * d)

\* Faulty variant of ActualDelayMinutes: the delay is not capped.
ActualDelayMinutesUncapped(retryCount) == Pow2(retryCount)

\* The delay of calculateNextRetry in minutes.
ActualDelayMinutes(retryCount) == Min(Pow2(retryCount), MaxDelayMinutes)

\* Faulty variant of CalculateNextRetry: the exponent is the count after the next increment.
CalculateNextRetryAfterIncrement(job, t) ==
    t + Min(Pow2(job.retryCount + 1), MaxDelayMinutes) * MsPerMinute

\* calculateNextRetry(job) evaluated at time t.
CalculateNextRetry(job, t) == t + ActualDelayMinutes(job.retryCount) * MsPerMinute

\* Names every object literal inherits from Object.prototype, and what looking
\* one of them up in statusMap yields: a function or object, which is truthy.
ObjectPrototypeKeys ==
    {"constructor", "toString", "toLocaleString", "valueOf", "hasOwnProperty",
     "isPrototypeOf", "propertyIsEnumerable", "__proto__"}
InheritedMember == "member of Object.prototype"

\* mapExternalStatus: statusMap[externalStatus] || IngestionStatus.FAILED
MapExternalStatus(externalStatus) ==
    IF externalStatus \in {"pending", "processing", "completed", "failed"}
    THEN externalStatus
    ELSE IF externalStatus \in ObjectPrototypeKeys
         THEN InheritedMember
         ELSE FAILED

\* triggerDto.maxRetries || 3
TriggerMaxRetries(maxRetries) ==
    IF maxRetries = Undef \/ maxRetries.v = 0 THEN DefaultMaxRetries ELSE maxRetries.v

\* ingestionJobRepository.create({...}) in triggerIngestion; id 0 is "not yet inserted".
CreateJob(dto, userId) ==
    [id |-> 0,
     type |-> dto.type,
     status |-> PENDING,
     progress |-> 0,
     retryCount |-> 0,
     maxRetries |-> TriggerMaxRetries(dto.maxRetries),
     documentIds |-> dto.documentIds,
     createdById |-> userId,
     errorMessage |-> Undef,
     outputData |-> Undef,
     externalJobId |-> Undef,
     startedAt |-> Undef,
     completedAt |-> Undef,
     nextRetryAt |-> Undef]

\* The row an INSERT of the in-memory job writes: unassigned columns are NULL.
InsertedRow(job, id) ==
    [f \in DOMAIN job |->
        IF f = "id" THEN id
        ELSE IF f \in NullableColumns /\ job[f] = Undef THEN Null
        ELSE job[f]]

\* The row save(job) leaves for an existing row: every assigned property is written.
SavedRow(row, job) ==
    [f \in DOMAIN row |->
        IF f \in NullableColumns /\ job[f] = Undef THEN row[f] ELSE job[f]]

(***************************************************************************)
(* State.                                                                  *)
(***************************************************************************)
VARIABLES
    jobs,      \* the ingestion_jobs table: jobs[id] is the row of job id
    requests,  \* requests[id]: the TriggerIngestionDto that created job id
    calls,     \* calls[c]: the c-th request to arrive, while the service handles it
    execs,     \* execs[c]: the processJob execution request c started, while it runs
    response,  \* what the step just taken answered to its caller, if it answered
    now        \* Date.now(), in milliseconds past the start

vars == <<jobs, requests, calls, execs, response, now>>

JobIds == 1..Len(jobs)
CallIds == 1..Len(calls)

\* A request that has been answered, and a request that started no execution.
Answered == [op |-> "none", userId |-> 0, req |-> Undef, pc |-> "done", job |-> Undef]
NoExec == [pc |-> "none", job |-> Undef, step |-> 0, documents |-> <<>>]
ExecDone == [pc |-> "done", job |-> Undef, step |-> 0, documents |-> <<>>]

NoResponse == [op |-> "none", error |-> "none", message |-> "", job |-> Undef]
Response(op, err, job) ==
    [op |-> op, error |-> err.error, message |-> err.message, job |-> job]

\* repository.save(job) on an existing row.
Save(job) == [jobs EXCEPT ![job.id] = SavedRow(jobs[job.id], job)]

\* The executions of job id that are running.
Running(id) == {c \in CallIds : execs[c].pc \notin {"none", "done"} /\ execs[c].job.id = id}

Init ==
    /\ jobs = <<>>
    /\ requests = <<>>
    /\ calls = <<>>
    /\ execs = <<>>
    /\ response = NoResponse
    /\ now = 0

(***************************************************************************)
(* Inputs of the requests.                                                 *)
(***************************************************************************)
Users == {1, 2}
\* The user whose job the models follow: the owner of document 1.
Owner == DocumentOwner[1]

\* The random suffix of an external job id.
RandomSuffixes == {"k3x"}

\* TriggerIngestionDto values tried in the concurrent model.
TriggerDtos ==
    [type : {"ocr"},
     documentIds : {<<1>>, <<1, 3>>, <<1, 4>>},
     maxRetries : {Undef, Some(1)}]

\* Webhook bodies tried: every status token WebhookStatusUpdateDto lets through, bare.
StatusUpdates ==
    [status : IngestionStatus, progress : {Undef}, error : {Undef}, output : {Undef}]

\* What processingService.processDocuments may answer.
ProcessingResults ==
    {[success |-> TRUE, data |-> Some("result"), error |-> Undef],
     [success |-> FALSE, data |-> Undef, error |-> Some("processing error")]}

\* `x || y` for an optional number, an optional string and an optional object.
FalsyNumber(x) == x = Null \/ x = Undef \/ x = Some(0)
FalsyString(x) == x = Null \/ x = Undef \/ x = Some("")
FalsyObject(x) == x = Null \/ x = Undef

(***************************************************************************)
(* findAll.                                                                *)
(***************************************************************************)
\* Math.ceil(a / b) for a >= 0 and b >= 1.
Ceil(a, b) == (a + b - 1) \div b

\* Faulty variant of Skip: the first page skips a page.
SkipWholePages(page, limit) == page * limit

\* skip: (page - 1) * limit
Skip(page, limit) == (page - 1) * limit

\* where: { createdById: userId }
JobsCreatedBy(userId) == {id \in JobIds : jobs[id].createdById = userId}

\* order: { createdAt: 'DESC' }; rows are stored in the order of their insertion,
\* which is the order of their createdAt.
RECURSIVE NewestFirst(_)
NewestFirst(ids) ==
    IF ids = {} THEN <<>>
    ELSE LET newest == CHOOSE id \in ids : \A other \in ids : other <= id
         IN  <<jobs[newest]>> \o NewestFirst(ids \ {newest})

\* findAndCount with skip and take: the page of rows, and the count of all rows
\* that match.
FindAndCount(userId, skip, take) ==
    LET all == NewestFirst(JobsCreatedBy(userId))
    IN  [jobs |-> SubSeq(all, skip + 1, Min(skip + take, Len(all))),
         total |-> Len(all)]

\* What findAll returns.
FindAllResult(userId, page, limit) ==
    LET found == FindAndCount(userId, Skip(page, limit), limit)
    IN  [op |-> "findAll", error |-> "none", message |-> "", job |-> Undef,
         jobs |-> found.jobs,
         total |-> found.total,
         page |-> page,
         limit |-> limit,
         totalPages |-> Ceil(found.total, limit)]

(***************************************************************************)
(* findOne.                                                                *)
(***************************************************************************)
\* Faulty variant of FindOneError: the owner of the job is not checked.
FindOneErrorAnyOwner(id, userId) ==
    IF id \notin JobIds
    THEN NotFound("Ingestion job not found")
    ELSE NoError

\* The exception findOne(id, userId) throws, or NoError.
FindOneError(id, userId) ==
    IF id \notin JobIds
    THEN NotFound("Ingestion job not found")
    ELSE IF jobs[id].createdById # userId
         THEN BadRequest("Access denied to this ingestion job")
         ELSE NoError

(***************************************************************************)
(* processJob.                                                             *)
(***************************************************************************)
\* Faulty variant of MarkFailed: the status is left as it was.
MarkFailedKeepsStatus(job, message, t) ==
    LET failed == [job EXCEPT !.errorMessage = message,
                              !.completedAt = Some(t)]
    IN  IF failed.retryCount < failed.maxRetries
        THEN [failed EXCEPT !.nextRetryAt = Some(CalculateNextRetry(failed, t))]
        ELSE failed

\* The failure branch and the catch block of processJob.
MarkFailed(job, message, t) ==
    LET failed == [job EXCEPT !.status = FAILED,
                              !.errorMessage = message,
                              !.completedAt = Some(t)]
    IN  IF failed.retryCount < failed.maxRetries
        THEN [failed EXCEPT !.nextRetryAt = Some(CalculateNextRetry(failed, t))]
        ELSE failed

\* processJob after processDocuments has answered.
ApplyResult(job, result, t) ==
    IF result.success
    THEN [job EXCEPT !.status = COMPLETED,
                     !.progress = 100,
                     !.outputData = result.data,
                     !.completedAt = Some(t)]
    ELSE MarkFailed(job,
                    IF FalsyString(result.error) THEN Some("Processing failed")
                    ELSE result.error,
                    t)

\* Faulty variant of StepProgress: the loop counts from 0 percent.
StepProgressFromZero(step) == Round(step * 100, TotalSteps)

\* The progress processJob stores at a step of its loop.
StepProgress(step) == Round((step + 1) * 100, TotalSteps)

\* processJob up to its first await: the in-memory job is marked PROCESSING
\* and its save is issued.
StartProcessJob(job, documents) ==
    [pc |-> "saveStart",
     job |-> [job EXCEPT !.status = PROCESSING, !.startedAt = Some(now)],
     step |-> 0,
     documents |-> documents]

\* The first save of processJob lands; the loop stores the first progress.
ProcessSaveStart(c) ==
    /\ execs[c].pc = "saveStart"
    /\ jobs' = Save(execs[c].job)
    /\ execs' = [execs EXCEPT ![c].pc = "saveProgress",
                              ![c].job.progress = StepProgress(0)]
    /\ response' = NoResponse
    /\ UNCHANGED <<requests, calls, now>>

\* A progress save lands; after the pause the loop goes on or calls the processing service.
ProcessSaveProgress(c) ==
    /\ execs[c].pc = "saveProgress"
    /\ jobs' = Save(execs[c].job)
    /\ execs' =
         IF execs[c].step + 1 < TotalSteps
         THEN [execs EXCEPT ![c].step = @ + 1,
                            ![c].job.progress = StepProgress(execs[c].step + 1)]
         ELSE [execs EXCEPT ![c].step = @ + 1, ![c].pc = "processDocuments"]
    /\ response' = NoResponse
    /\ UNCHANGED <<requests, calls, now>>

\* processDocuments answers; the in-memory job takes its terminal state.
ProcessResult(c, result) ==
    /\ execs[c].pc = "processDocuments"
    /\ execs' = [execs EXCEPT ![c].pc = "saveFinal",
                              ![c].job = ApplyResult(execs[c].job, result, now)]
    /\ response' = NoResponse
    /\ UNCHANGED <<jobs, requests, calls, now>>

\* The terminal save lands and processJob returns.
ProcessSaveFinal(c) ==
    /\ execs[c].pc = "saveFinal"
    /\ jobs' = Save(execs[c].job)
    /\ execs' = [execs EXCEPT ![c] = ExecDone]
    /\ response' = NoResponse
    /\ UNCHANGED <<requests, calls, now>>

\* An awaited call inside the try block of processJob (a save, the processing
\* service) rejects with error: the catch block marks the in-memory job failed
\* and issues its save.
ProcessThrow(c, error) ==
    /\ execs[c].pc \in {"saveStart", "saveProgress", "processDocuments"}
    /\ execs' = [execs EXCEPT ![c].pc = "saveFinal",
                              ![c].job = MarkFailed(execs[c].job,
                                                    IF FalsyString(error.message)
                                                    THEN Some("Processing failed")
                                                    ELSE error.message,
                                                    now)]
    /\ response' = NoResponse
    /\ UNCHANGED <<jobs, requests, calls, now>>

(***************************************************************************)
(* triggerIngestion.                                                       *)
(***************************************************************************)
\* The request arrives and validateDocuments answers.  `room` says whether the
\* model still follows a request the service accepts.
TriggerIngestion(userId, dto, room) ==
    LET err == ValidateDocuments(dto.documentIds, userId) IN
    /\ err = NoError => room
    /\ IF err = NoError
       THEN /\ calls' = Append(calls, [op |-> "trigger", userId |-> userId, req |-> dto,
                                       pc |-> "insert", job |-> CreateJob(dto, userId)])
            /\ response' = NoResponse
            /\ execs' = Append(execs, NoExec)
       ELSE /\ response' = Response("trigger", err, Undef)
            /\ UNCHANGED <<calls, execs>>
    /\ UNCHANGED <<jobs, requests, now>>

\* The first save inserts the row; the external job id is put on the in-memory job.
TriggerInsert(c, suffix) ==
    /\ calls[c].op = "trigger" /\ calls[c].pc = "insert"
    /\ LET id == Len(jobs) + 1 IN
       /\ jobs' = Append(jobs, InsertedRow(calls[c].job, id))
       /\ calls' = [calls EXCEPT ![c].pc = "saveExternalId",
                                 ![c].job.id = id,
                                 ![c].job.externalJobId = Some(<<now, suffix>>)]
    /\ requests' = Append(requests, calls[c].req)
    /\ response' = NoResponse
    /\ UNCHANGED <<execs, now>>

\* The second save lands; processJob is started and the final findOne is issued.
TriggerSaveExternalId(c) ==
    /\ calls[c].op = "trigger" /\ calls[c].pc = "saveExternalId"
    /\ jobs' = Save(calls[c].job)
    /\ execs' = [execs EXCEPT
                   ![c] = StartProcessJob(calls[c].job, FindDocuments(calls[c].req.documentIds))]
    /\ calls' = [calls EXCEPT ![c].pc = "findOne"]
    /\ response' = NoResponse
    /\ UNCHANGED <<requests, now>>

\* The final findOne of triggerIngestion and of retryJob answers the request.
ReturnFindOne(c) ==
    /\ calls[c].pc = "findOne"
    /\ LET err == FindOneError(calls[c].job.id, calls[c].userId) IN
       response' = Response(calls[c].op, err,
                            IF err = NoError THEN jobs[calls[c].job.id] ELSE Undef)
    /\ calls' = [calls EXCEPT ![c] = Answered]
    /\ UNCHANGED <<jobs, requests, execs, now>>

(***************************************************************************)
(* retryJob.                                                               *)
(***************************************************************************)
\* Faulty variant of RetryError: the status of the job is not checked.
RetryErrorAnyStatus(job) ==
    IF job.retryCount >= job.maxRetries
    THEN BadRequest("Maximum retry attempts reached")
    ELSE NoError

\* Faulty variant of RetryError: one retry too many is let through.
RetryErrorOffByOne(job) ==
    IF job.status # FAILED
    THEN BadRequest("Only failed jobs can be retried")
    ELSE IF job.retryCount > job.maxRetries
         THEN BadRequest("Maximum retry attempts reached")
         ELSE NoError

\* The two checks of retryJob on the job findOne returned.
RetryError(job) ==
    IF job.status # FAILED
    THEN BadRequest("Only failed jobs can be retried")
    ELSE IF job.retryCount >= job.maxRetries
         THEN BadRequest("Maximum retry attempts reached")
         ELSE NoError

\* Faulty variant of ResetForRetry: the scheduled retry time is kept.
ResetForRetryKeepsNextRetryAt(job) ==
    [job EXCEPT !.status = RETRYING,
                !.progress = 0,
                !.errorMessage = Null,
                !.retryCount = @ + 1]

\* Faulty variant of ResetForRetry: the reset job loses its external job id.
ResetForRetryDropsExternalId(job) ==
    [job EXCEPT !.status = RETRYING,
                !.progress = 0,
                !.errorMessage = Null,
                !.retryCount = @ + 1,
                !.nextRetryAt = Null,
                !.externalJobId = Null]

\* "Reset job for retry".
ResetForRetry(job) ==
    [job EXCEPT !.status = RETRYING,
                !.progress = 0,
                !.errorMessage = Null,
                !.retryCount = @ + 1,
                !.nextRetryAt = Null]

\* The exception retryJob(id, userId) throws on the table as it is, or NoError.
RetryJobError(id, userId) ==
    IF FindOneError(id, userId) # NoError
    THEN FindOneError(id, userId)
    ELSE RetryError(jobs[id])

\* The request arrives and findOne answers; the job is checked and reset in memory.
RetryJob(userId, id, room) ==
    LET err == RetryJobError(id, userId) IN
    /\ err = NoError => room
    /\ IF err = NoError
       THEN /\ calls' = Append(calls, [op |-> "retry", userId |-> userId, req |-> [id |-> id],
                                       pc |-> "save", job |-> ResetForRetry(jobs[id])])
            /\ response' = NoResponse
            /\ execs' = Append(execs, NoExec)
       ELSE /\ response' = Response("retry", err, Undef)
            /\ UNCHANGED <<calls, execs>>
    /\ UNCHANGED <<jobs, requests, now>>

\* The save of the reset job lands; the documents are looked up.
RetrySave(c) ==
    /\ calls[c].op = "retry" /\ calls[c].pc = "save"
    /\ jobs' = Save(calls[c].job)
    /\ calls' = [calls EXCEPT ![c].pc = "findDocuments"]
    /\ response' = NoResponse
    /\ UNCHANGED <<requests, execs, now>>

\* The documents arrive; processJob is started and the final findOne is issued.
RetryFindDocuments(c) ==
    /\ calls[c].op = "retry" /\ calls[c].pc = "findDocuments"
    /\ execs' = [execs EXCEPT
                   ![c] = StartProcessJob(calls[c].job, FindDocuments(calls[c].job.documentIds))]
    /\ calls' = [calls EXCEPT ![c].pc = "findOne"]
    /\ response' = NoResponse
    /\ UNCHANGED <<jobs, requests, now>>

(***************************************************************************)
(* updateJobStatus (webhook).                                              *)
(***************************************************************************)
\* The in-memory job after updateJobStatus has applied statusUpdate at time t.
ApplyStatusUpdate(job, statusUpdate, t) ==
    LET mapped == [job EXCEPT
                     !.status = MapExternalStatus(statusUpdate.status),
                     !.progress = IF FalsyNumber(statusUpdate.progress) THEN @
                                  ELSE statusUpdate.progress.v,
                     !.errorMessage = IF FalsyString(statusUpdate.error) THEN @
                                      ELSE statusUpdate.error,
                     !.outputData = IF FalsyObject(statusUpdate.output) THEN @
                                    ELSE statusUpdate.output]
        started == IF statusUpdate.status = "processing" /\ ~IsSet(mapped.startedAt)
                   THEN [mapped EXCEPT !.startedAt = Some(t)]
                   ELSE mapped
        completed == IF statusUpdate.status = "completed"
                     THEN [started EXCEPT !.completedAt = Some(t), !.progress = 100]
                     ELSE started
        failed == [completed EXCEPT
                     !.errorMessage = IF FalsyString(statusUpdate.error)
                                      THEN Some("Processing failed")
                                      ELSE statusUpdate.error]
    IN  IF statusUpdate.status = "failed"
        THEN IF failed.retryCount < failed.maxRetries
             THEN [failed EXCEPT !.nextRetryAt = Some(CalculateNextRetry(failed, t))]
             ELSE failed
        ELSE completed

\* Faulty variant of JobsByExternalId: a lookup that matches nothing falls back
\* to every stored job.
JobsByExternalIdOrAny(externalJobId) ==
    LET found == {id \in JobIds : jobs[id].externalJobId = Some(externalJobId)}
    IN  IF found = {} THEN JobIds ELSE found

\* The rows findOne({ where: { externalJobId } }) may return.
JobsByExternalId(externalJobId) ==
    {id \in JobIds : jobs[id].externalJobId = Some(externalJobId)}

\* The external job ids handed out so far, which a webhook sender may name.
ExternalIds ==
    {jobs[id].externalJobId.v : id \in {i \in JobIds : IsSet(jobs[i].externalJobId)}}

\* The request arrives and the lookup answers; the update is applied in memory.
UpdateJobStatus(externalJobId, statusUpdate, room) ==
    /\ \/ /\ JobsByExternalId(externalJobId) = {}
          /\ response' = Response("webhook", NoError, Undef)
          /\ UNCHANGED <<calls, execs>>
       \/ /\ room
          /\ \E id \in JobsByExternalId(externalJobId) :
               calls' = Append(calls,
                          [op |-> "webhook", userId |-> 0,
                           req |-> [externalJobId |-> externalJobId,
                                    statusUpdate |-> statusUpdate],
                           pc |-> "save",
                           job |-> ApplyStatusUpdate(jobs[id], statusUpdate, now)])
          /\ execs' = Append(execs, NoExec)
          /\ response' = NoResponse
    /\ UNCHANGED <<jobs, requests, now>>

\* The save of updateJobStatus lands and the webhook is answered; a status that
\* is no value of the enum column is refused by the database and the save throws.
UpdateJobStatusSave(c) ==
    /\ calls[c].op = "webhook" /\ calls[c].pc = "save"
    /\ IF calls[c].job.status \in IngestionStatus
       THEN /\ jobs' = Save(calls[c].job)
            /\ response' = Response("webhook", NoError, Undef)
       ELSE /\ jobs' = jobs
            /\ response' = Response("webhook",
                                    QueryFailed("invalid input value for enum"), Undef)
    /\ calls' = [calls EXCEPT ![c] = Answered]
    /\ UNCHANGED <<requests, execs, now>>

(***************************************************************************)
(* The clock.                                                              *)
(***************************************************************************)
Tick ==
    /\ now < MaxNow
    /\ now' = now + 1
    /\ response' = NoResponse
    /\ UNCHANGED <<jobs, requests, calls, execs>>

(***************************************************************************)
(* The concurrent model.  It follows one job from its trigger: requests on *)
(* the job arrive at any time, and every step of every request and         *)
(* execution interleaves with every other.  A request the service rejects  *)
(* changes nothing and is always possible.  The clock stands still: no     *)
(* property checked on this model reads the value of a timestamp.          *)
(***************************************************************************)
Process(c) ==
    \/ ProcessSaveStart(c)
    \/ ProcessSaveProgress(c)
    \/ \E result \in ProcessingResults : ProcessResult(c, result)
    \/ ProcessSaveFinal(c)

Continue(c) ==
    \/ \E suffix \in RandomSuffixes : TriggerInsert(c, suffix)
    \/ TriggerSaveExternalId(c)
    \/ RetrySave(c)
    \/ RetryFindDocuments(c)
    \/ UpdateJobStatusSave(c)
    \/ ReturnFindOne(c)

\* No request has arrived yet.
NoRequestYet == jobs = <<>> /\ calls = <<>>

Arrive ==
    \/ NoRequestYet /\ \E dto \in TriggerDtos : TriggerIngestion(Owner, dto, TRUE)
    \/ \E id \in JobIds : RetryJob(Owner, id, Len(calls) < MaxCalls)
    \/ \E externalJobId \in ExternalIds, statusUpdate \in StatusUpdates :
          UpdateJobStatus(externalJobId, statusUpdate, Len(calls) < MaxCalls)

Next ==
    \/ Arrive
    \/ \E c \in CallIds : Continue(c)
    \/ \E c \in CallIds : Process(c)

Spec == Init /\ [][Next]_vars

\* The concurrent model with every request that has arrived and every execution
\* that has started scheduled until it ends; no request has to arrive.
FairSpec ==
    /\ Spec
    /\ WF_vars(\E c \in CallIds : Continue(c))
    /\ WF_vars(\E c \in CallIds : Process(c))

(***************************************************************************)
(* Properties of the concurrent model.                                     *)
(***************************************************************************)
\* C1: retryJob(id, owner) is accepted only when the stored job is FAILED with
\* retryCount < maxRetries; for a job in any other status, and for a FAILED job
\* with retryCount = maxRetries, it fails with BadRequestException (HTTP 400),
\* leaves the stored job unchanged and starts no execution.
C1_RetryOnlyFailedWithRetriesLeft ==
    [][\A id \in JobIds :
         RetryJob(Owner, id, TRUE) =>
           IF jobs[id].status = FAILED /\ jobs[id].retryCount < jobs[id].maxRetries
           THEN /\ Len(calls') = Len(calls) + 1
                /\ calls'[Len(calls')].op = "retry"
                /\ response' = NoResponse
           ELSE /\ response'.op = "retry"
                /\ response'.error = "BadRequestException"
                /\ jobs' = jobs
                /\ calls' = calls
                /\ execs' = execs]_vars

\* A retry of a FAILED job that has used all its retries has just been rejected.
C1_Witness ==
    /\ response.op = "retry"
    /\ response.message = "Maximum retry attempts reached"
    /\ \E id \in JobIds : /\ jobs[id].status = FAILED
                          /\ jobs[id].retryCount = jobs[id].maxRetries

LifecycleTransitions ==
    {<<PENDING, PROCESSING>>, <<RETRYING, PROCESSING>>, <<PROCESSING, COMPLETED>>,
     <<PROCESSING, FAILED>>, <<FAILED, RETRYING>>}

\* C5: every change of the stored status of a job is one of the lifecycle
\* transitions PENDING->PROCESSING, RETRYING->PROCESSING, PROCESSING->COMPLETED,
\* PROCESSING->FAILED, FAILED->RETRYING.
C5_OnlyLifecycleTransitions ==
    [][\A id \in JobIds :
         jobs'[id].status # jobs[id].status =>
           <<jobs[id].status, jobs'[id].status>> \in LifecycleTransitions]_vars

\* C7: an accepted retryJob holds the job it read with status RETRYING, progress 0,
\* errorMessage null, nextRetryAt null and retryCount one greater, every other
\* field as read; its save persists exactly that job; and it then starts one
\* execution with the documents found for documentIds.
C7_RetryResetsAndDispatches ==
    [][/\ \A id \in JobIds :
            RetryJob(Owner, id, TRUE) /\ Len(calls') = Len(calls) + 1 =>
              calls'[Len(calls')].job =
                [jobs[id] EXCEPT !.status = RETRYING,
                                 !.progress = 0,
                                 !.errorMessage = Null,
                                 !.nextRetryAt = Null,
                                 !.retryCount = jobs[id].retryCount + 1]
       /\ \A c \in CallIds :
            /\ RetrySave(c) =>
                 /\ jobs'[calls[c].job.id] = calls[c].job
                 /\ \A id \in JobIds \ {calls[c].job.id} : jobs'[id] = jobs[id]
                 /\ execs' = execs
            /\ RetryFindDocuments(c) =>
                 /\ execs[c] = NoExec
                 /\ execs'[c].pc = "saveStart"
                 /\ execs'[c].job.id = calls[c].job.id
                 /\ execs'[c].documents = FindDocuments(jobs[calls[c].job.id].documentIds)
                 /\ \A d \in CallIds \ {c} : execs'[d] = execs[d]]_vars

\* A retry has saved the reset job and has started its execution.
C7_Witness ==
    \E c \in CallIds :
        /\ calls[c].op = "retry" /\ calls[c].pc = "findOne"
        /\ execs[c].pc = "saveStart"
        /\ jobs[calls[c].job.id].status = RETRYING
        /\ jobs[calls[c].job.id].retryCount = 1
        /\ jobs[calls[c].job.id].nextRetryAt = Null

\* C8: whenever the stored status of a job becomes FAILED, by an execution or by
\* a webhook update, its nextRetryAt afterwards is non-null if
\* retryCount < maxRetries and null if retryCount >= maxRetries.
C8_NextRetryAtWhenFailed ==
    [][\A id \in JobIds :
         jobs[id].status # FAILED /\ jobs'[id].status = FAILED =>
           (IsSet(jobs'[id].nextRetryAt) <=> jobs'[id].retryCount < jobs'[id].maxRetries)]_vars

\* The status of the job the model follows.
JobStatus == IF Len(jobs) >= 1 THEN jobs[1].status ELSE "absent"

\* C4: every job created by a trigger becomes PROCESSING, and a job that is
\* PENDING, RETRYING or PROCESSING eventually is COMPLETED or FAILED, when every
\* request and execution in flight keeps being scheduled.
C4_ReachesTerminalStatus ==
    /\ (JobStatus = PENDING) ~> (JobStatus = PROCESSING)
    /\ (JobStatus \in {PENDING, RETRYING, PROCESSING}) ~> (JobStatus \in {COMPLETED, FAILED})

(***************************************************************************)
(* Concurrent retries.  The model follows one job whose owner issues       *)
(* retries at any time, with no webhook.                                   *)
(***************************************************************************)
ArriveRetry ==
    \/ NoRequestYet /\ \E dto \in TriggerDtos : TriggerIngestion(Owner, dto, TRUE)
    \/ \E id \in JobIds : RetryJob(Owner, id, Len(calls) < 1 + MaxRetryCalls)

NextRetry ==
    \/ ArriveRetry
    \/ \E c \in CallIds : Continue(c)
    \/ \E c \in CallIds : Process(c)

SpecRetry == Init /\ [][NextRetry]_vars

\* C6: for each job at most one execution is in flight at any time, under any
\* interleaving of retryJob calls.
C6_OneExecutionInFlight == \A id \in JobIds : Cardinality(Running(id)) <= 1

(***************************************************************************)
(* The sequential retry scenario.  Every execution fails, no webhook       *)
(* arrives, and the owner issues a retry only when the previous request    *)
(* has been answered and the previous execution has ended.  The clock      *)
(* runs.                                                                   *)
(***************************************************************************)
\* TriggerIngestionDto values tried in the scenario.
SeqTriggerDtos ==
    [type : {"ocr"},
     documentIds : {<<1>>},
     maxRetries : {Some(0), Some(1), Some(2), Some(3), Some(7)}]

\* processDocuments answers with a failure.
FailingResults == {result \in ProcessingResults : ~result.success}

\* No request and no execution is in flight.
Quiescent ==
    \A c \in CallIds : calls[c] = Answered /\ execs[c].pc \in {"none", "done"}

ProcessFailing(c) ==
    \/ ProcessSaveStart(c)
    \/ ProcessSaveProgress(c)
    \/ \E result \in FailingResults : ProcessResult(c, result)
    \/ ProcessSaveFinal(c)

NextSeq ==
    \/ NoRequestYet /\ \E dto \in SeqTriggerDtos : TriggerIngestion(Owner, dto, TRUE)
    \/ Quiescent /\ \E id \in JobIds : RetryJob(Owner, id, TRUE)
    \/ \E c \in CallIds : Continue(c)
    \/ \E c \in CallIds : ProcessFailing(c)
    \/ Tick

SpecSeq == Init /\ [][NextSeq]_vars

\* C3: for a job triggered with maxRetries = m, exactly m successive retries are
\* accepted, the k-th taking retryCount from k-1 to k, and the only retry
\* rejected is the (m+1)-th, with BadRequestException (HTTP 400).
C3_ExactlyMRetries ==
    Len(requests) >= 1 =>
      LET m == requests[1].maxRetries.v IN
      /\ Len(calls) - 1 <= m
      /\ \A c \in CallIds :
           calls[c].op = "retry" /\ calls[c].pc = "save" =>
             calls[c].job.retryCount = c - 1
      /\ response.op = "retry" /\ response.error # "none" =>
           /\ response.error = "BadRequestException"
           /\ Len(calls) - 1 = m

\* The delay in minutes that follows a failure at retryCount 0, 1, 2, ...
BackoffMinutes == <<1, 2, 4, 8, 16, 32, 60, 60, 60, 60>>

\* The delay in minutes counted from the retry count after its next increment.
BackoffMinutesAfterIncrement == <<2, 4, 8, 16, 32, 60, 60, 60, 60, 60>>

\* C10 as stated: when an execution of a job triggered with maxRetries = 3 has
\* failed and retries are left, nextRetryAt is the failure time plus 2, 4, 8, ...
\* minutes (2 after the first failure, where retryCount is still 0).
C10_DelayDoublesFromTwo ==
    \A id \in JobIds :
        requests[id].maxRetries = Some(3) /\ jobs[id].status = FAILED =>
          /\ Len(calls) = 1 => jobs[id].retryCount = 0
          /\ jobs[id].retryCount < jobs[id].maxRetries =>
               jobs[id].nextRetryAt =
                 Some(jobs[id].completedAt.v
                      + BackoffMinutesAfterIncrement[jobs[id].retryCount + 1] * MsPerMinute)

\* C10 amended: when an execution of a job has failed and retries are left,
\* nextRetryAt is the failure time plus 1, 2, 4, ... minutes capped at 60
\* (1 after the first failure, where retryCount is still 0).
C10_DelayDoublesFromOne ==
    \A id \in JobIds :
        jobs[id].status = FAILED =>
          /\ Len(calls) = 1 => jobs[id].retryCount = 0
          /\ jobs[id].retryCount < jobs[id].maxRetries =>
               jobs[id].nextRetryAt =
                 Some(jobs[id].completedAt.v
                      + BackoffMinutes[jobs[id].retryCount + 1] * MsPerMinute)

\* The first execution of a job triggered with maxRetries = 3 has failed after
\* the clock has moved, and the retry is due one minute after the failure.
C10_Witness ==
    \E id \in JobIds :
        /\ requests[id].maxRetries = Some(3)
        /\ Len(calls) = 1
        /\ jobs[id].status = FAILED
        /\ jobs[id].retryCount = 0
        /\ jobs[id].completedAt.v > 0
        /\ jobs[id].nextRetryAt = Some(jobs[id].completedAt.v + MsPerMinute)

(***************************************************************************)
(* The backoff of calculateNextRetry.  The store holds one job that has    *)
(* completed after any number of retries up to the limit of the trigger    *)
(* DTO; webhooks report it failed, and the clock runs.                     *)
(***************************************************************************)
\* The job after retryCount retries, the last of which completed.
CompletedAfter(retryCount) ==
    [InsertedRow(CreateJob([type |-> "ocr", documentIds |-> <<1>>,
                            maxRetries |-> Some(MaxRetriesLimit)], Owner), 1)
       EXCEPT !.status = COMPLETED,
              !.progress = 100,
              !.retryCount = retryCount,
              !.outputData = Some("result"),
              !.externalJobId = Some(<<0, "k3x">>),
              !.startedAt = Some(0),
              !.completedAt = Some(0)]

InitBackoff ==
    /\ \E retryCount \in 0..MaxRetriesLimit : jobs = <<CompletedAfter(retryCount)>>
    /\ requests = <<[type |-> "ocr", documentIds |-> <<1>>, maxRetries |-> Some(MaxRetriesLimit)]>>
    /\ calls = <<>>
    /\ execs = <<>>
    /\ response = NoResponse
    /\ now = 0

\* The webhook body that reports a failure.
FailedUpdate == [status |-> "failed", progress |-> Undef, error |-> Undef, output |-> Undef]

NextBackoff ==
    \/ \E externalJobId \in ExternalIds :
          UpdateJobStatus(externalJobId, FailedUpdate, Len(calls) < MaxCalls)
    \/ \E c \in CallIds : UpdateJobStatusSave(c)
    \/ Tick

SpecBackoff == InitBackoff /\ [][NextBackoff]_vars

\* C9: the delay computed for a failed job with retries left is min(2^retryCount, 60)
\* minutes: 1, 2, 4, 8, 16, 32, 60 for retryCount 0..6 and 60 beyond; it is
\* non-decreasing in retryCount and never exceeds 60.
C9_BackoffDelay ==
    [][Len(calls') = Len(calls) + 1 =>
         LET job == calls'[Len(calls')].job IN
         job.retryCount < job.maxRetries =>
           /\ IsSet(job.nextRetryAt)
           /\ job.nextRetryAt.v - now = BackoffMinutes[job.retryCount + 1] * MsPerMinute
           /\ job.nextRetryAt.v - now <= 60 * MsPerMinute
           /\ job.nextRetryAt.v - now <= CalculateNextRetry([job EXCEPT !.retryCount = @ + 1], now) - now]_vars

\* A failure at retryCount 6 has been stored with the retry due 60 minutes later.
C9_Witness ==
    \E id \in JobIds :
        /\ jobs[id].status = FAILED
        /\ jobs[id].retryCount = 6
        /\ IsSet(jobs[id].nextRetryAt)
        /\ jobs[id].nextRetryAt.v - 60 * MsPerMinute \in 0..now

(***************************************************************************)
(* Triggers.  Any user triggers one job with any of a wide range of        *)
(* requests; the job is inserted and its execution runs.                   *)
(***************************************************************************)
\* TriggerIngestionDto values tried: document lists that resolve and are owned,
\* that name a document of another user, that name no document, that name a
\* document twice; every maxRetries the DTO lets through, and none.
WideTriggerDtos ==
    [type : {"ocr"},
     documentIds : {<<1>>, <<1, 2>>, <<3>>, <<1, 3>>, <<1, 4>>, <<4>>, <<1, 1>>},
     maxRetries : {Undef} \cup {Some(m) : m \in 0..MaxRetriesLimit}]

NextTrigger ==
    \/ NoRequestYet /\ \E userId \in Users, dto \in WideTriggerDtos :
                          TriggerIngestion(userId, dto, TRUE)
    \/ \E c \in CallIds : Continue(c)
    \/ \E c \in CallIds : Process(c)

SpecTrigger == Init /\ [][NextTrigger]_vars

\* Some requested document id names no document.
SomeIdUnresolved(documentIds) ==
    \E i \in 1..Len(documentIds) : documentIds[i] \notin 1..Len(DocumentOwner)

\* Every requested id names a document, and one of them is owned by another user.
SomeDocumentForeign(documentIds, userId) ==
    /\ ~SomeIdUnresolved(documentIds)
    /\ \E i \in 1..Len(documentIds) : DocumentOwner[documentIds[i]] # userId

\* C11: a trigger naming an id that does not resolve fails with
\* BadRequestException (InvalidRequest); a trigger whose ids all resolve but
\* name a document of another user fails with a different error (AccessDenied);
\* in both cases no job is created and no execution is started.
C11_TriggerValidationErrors ==
    [][\A userId \in Users, dto \in WideTriggerDtos :
         TriggerIngestion(userId, dto, TRUE)
           /\ (SomeIdUnresolved(dto.documentIds) \/ SomeDocumentForeign(dto.documentIds, userId))
         => /\ response'.op = "trigger"
            /\ response'.error # "none"
            /\ jobs' = jobs /\ calls' = calls /\ execs' = execs
            /\ SomeIdUnresolved(dto.documentIds) => response'.error = "BadRequestException"
            /\ SomeDocumentForeign(dto.documentIds, userId) =>
                 response'.error # "BadRequestException"]_vars

\* C12: the job a successful trigger inserts has status PENDING, progress 0,
\* retryCount 0, createdById the caller, and maxRetries the requested value (3
\* when the request gives none); a job requested with maxRetries 0 has every
\* retry rejected.
C12_CreatedJobFields ==
    [][/\ \A c \in CallIds :
            (\E suffix \in RandomSuffixes : TriggerInsert(c, suffix)) =>
              LET job == jobs'[Len(jobs')] IN
              /\ job.status = PENDING
              /\ job.progress = 0
              /\ job.retryCount = 0
              /\ job.createdById = calls[c].userId
              /\ job.maxRetries = IF calls[c].req.maxRetries = Undef THEN 3
                                  ELSE calls[c].req.maxRetries.v
       /\ \A id \in JobIds :
            requests[id].maxRetries = Some(0) =>
              RetryJobError(id, jobs[id].createdById) # NoError]_vars

(***************************************************************************)
(* Concurrent triggers.  The owner triggers jobs at any time while the     *)
(* clock runs; each trigger draws its random suffix.                       *)
(***************************************************************************)
\* The request every trigger of this model sends.
PlainTriggerDto == [type |-> "ocr", documentIds |-> <<1>>, maxRetries |-> Undef]

\* The random suffixes drawn in this model: two triggers may draw the same or not.
IdSuffixes == {"k3x", "p7q"}

ContinueIds(c) ==
    \/ \E suffix \in IdSuffixes : TriggerInsert(c, suffix)
    \/ TriggerSaveExternalId(c)
    \/ ReturnFindOne(c)

NextIds ==
    \/ TriggerIngestion(Owner, PlainTriggerDto, Len(calls) < MaxJobs)
    \/ \E c \in CallIds : ContinueIds(c)
    \/ \E c \in CallIds : Process(c)
    \/ Tick

SpecIds == Init /\ [][NextIds]_vars

\* C13: no two jobs in the store have the same externalJobId, and every job a
\* trigger returns has an externalJobId.
C13_ExternalIdsUnique ==
    /\ \A i, j \in JobIds :
         i # j /\ IsSet(jobs[i].externalJobId) /\ IsSet(jobs[j].externalJobId) =>
           jobs[i].externalJobId # jobs[j].externalJobId
    /\ response.op = "trigger" /\ response.error = "none" =>
         IsSet(response.job.externalJobId)

(***************************************************************************)
(* Properties of what the requests answer and of what the store holds.     *)
(***************************************************************************)
\* C14: the job a successful trigger returns has status PENDING and the job a
\* successful retryJob returns has status RETRYING, however the final findOne of
\* the request interleaves with the first save of the execution it started.
C14_ReturnedStatus ==
    /\ response.op = "trigger" /\ response.error = "none" => response.job.status = PENDING
    /\ response.op = "retry" /\ response.error = "none" => response.job.status = RETRYING

\* The execution the trigger started has not stored its result and no later
\* request has finished: the job has not been stored COMPLETED or FAILED yet.
BeforeFirstTerminal ==
    /\ Len(execs) >= 1
    /\ execs[1].pc \notin {"none", "done"}
    /\ \A c \in 2..Len(calls) : calls[c].pc # "done"

\* C15: from the creation of a job until it is first stored COMPLETED or FAILED,
\* no step lowers its stored progress, so successive reads observe
\* non-decreasing values, however execution steps and webhook updates interleave.
C15_ProgressNonDecreasing ==
    [][\A id \in JobIds :
         BeforeFirstTerminal /\ jobs'[id].status \notin {COMPLETED, FAILED} =>
           jobs'[id].progress >= jobs[id].progress]_vars

(***************************************************************************)
(* Status updates from the processing service, with everything the body    *)
(* of the request may carry: updateJobStatus takes statusUpdate: any.       *)
(***************************************************************************)
\* A job whose execution ended in failure (processJob's catch or a result
\* with success false), at rest.
FailedAfter(retryCount) ==
    MarkFailed([CompletedAfter(retryCount) EXCEPT !.status = PROCESSING,
                                                  !.outputData = Null,
                                                  !.completedAt = Null],
               Some("processing error"), 0)

InitWebhook ==
    /\ jobs \in {<<CompletedAfter(0)>>, <<FailedAfter(0)>>}
    /\ requests = <<[type |-> "ocr", documentIds |-> <<1>>, maxRetries |-> Some(MaxRetriesLimit)]>>
    /\ calls = <<>>
    /\ execs = <<>>
    /\ response = NoResponse
    /\ now = 0

\* Status tokens a body may carry: the enum's values, another spelling, a name
\* inherited from Object.prototype.
WebhookTokens == IngestionStatus \cup {"FAILED", "constructor"}
WebhookProgress == {-5, 0, 150}
WideStatusUpdates ==
    [status : WebhookTokens, progress : {Undef}, error : {Undef}, output : {Undef}]
    \cup [status : {"processing"}, progress : {Some(p) : p \in WebhookProgress},
          error : {Undef}, output : {Undef}]
    \cup [status : {"processing"}, progress : {Undef},
          error : {Some("bad page")}, output : {Some("text")}]

\* An external job id no job carries.
UnknownExternalId == <<0, "none">>
WebhookExternalIds == ExternalIds \cup {UnknownExternalId}

NextWebhook ==
    \/ \E externalJobId \in WebhookExternalIds, statusUpdate \in WideStatusUpdates :
          UpdateJobStatus(externalJobId, statusUpdate, Len(calls) < MaxCalls)
    \/ \E c \in CallIds : UpdateJobStatusSave(c)

SpecWebhook == InitWebhook /\ [][NextWebhook]_vars

\* C16: whatever progress value a status update passes, the stored progress
\* of every job is between 0 and 100.
C16_ProgressWithinRange ==
    \A id \in JobIds : jobs[id].progress \in 0..100

\* C17: a job whose status is COMPLETED has progress 100, completedAt set and
\* outputData set, whichever path completed it.
C17_CompletedFields ==
    \A id \in JobIds :
        jobs[id].status = COMPLETED =>
            /\ jobs[id].progress = 100
            /\ IsSet(jobs[id].completedAt)
            /\ IsSet(jobs[id].outputData)

\* C18: a job whose status is FAILED has a non-null errorMessage and a
\* non-null completedAt, whichever path failed it.
C18_FailedFields ==
    \A id \in JobIds :
        jobs[id].status = FAILED =>
            /\ IsSet(jobs[id].errorMessage)
            /\ IsSet(jobs[id].completedAt)

ExpectedStatus(token) ==
    CASE token = "pending" -> PENDING
      [] token = "processing" -> PROCESSING
      [] token = "completed" -> COMPLETED
      [] token = "failed" -> FAILED
      [] OTHER -> FAILED

\* C20: a status update gives the job the status its token maps to: pending,
\* processing, completed and failed map to the status of that name, every
\* other token (retrying, other spellings, anything else) to FAILED; no status
\* update makes a job RETRYING.
C20_StatusMapping ==
    \A c \in CallIds :
        calls[c].op = "webhook" /\ calls[c].pc = "save" =>
            /\ calls[c].job.status = ExpectedStatus(calls[c].req.statusUpdate.status)
            /\ calls[c].job.status # RETRYING

\* C21: a status update for a stored job sets progress to the supplied value
\* for every supplied value in 0..100, sets errorMessage and outputData to the
\* supplied error and output, and keeps the stored value of each field the
\* update does not supply; only 'completed' forces progress to 100 (and
\* 'failed' without an error gives errorMessage its default text).
C21_AppliesSuppliedFields ==
    [][\A externalJobId \in ExternalIds, statusUpdate \in WideStatusUpdates :
          (/\ Len(calls') = Len(calls) + 1
           /\ UpdateJobStatus(externalJobId, statusUpdate, TRUE))
          => LET new == calls'[Len(calls')].job
                 old == jobs[new.id]
             IN  /\ statusUpdate.status # "completed" =>
                      /\ statusUpdate.progress \in {Some(p) : p \in 0..100}
                            => new.progress = statusUpdate.progress.v
                      /\ statusUpdate.progress = Undef => new.progress = old.progress
                 /\ IsSet(statusUpdate.error) => new.errorMessage = statusUpdate.error
                 /\ statusUpdate.error = Undef /\ statusUpdate.status # "failed"
                       => new.errorMessage = old.errorMessage
                 /\ IsSet(statusUpdate.output) => new.outputData = statusUpdate.output
                 /\ statusUpdate.output = Undef => new.outputData = old.outputData]_vars

(***************************************************************************)
(* Reads and retries by the owner of a job and by another user.            *)
(***************************************************************************)
\* findOne called on its own (GET /ingestion/:id).
FindOne(id, userId) ==
    /\ LET err == FindOneError(id, userId) IN
       response' = Response("findOne", err, IF err = NoError THEN jobs[id] ELSE Undef)
    /\ UNCHANGED <<jobs, requests, calls, execs, now>>

\* The request user userId triggered, and the job it led to once its execution
\* has failed: each user names a document of their own.
RequestOf(userId) ==
    [type |-> "ocr",
     documentIds |-> IF userId = Owner THEN <<1>> ELSE <<3>>,
     maxRetries |-> Some(MaxRetriesLimit)]

FailedJobOf(id, userId) ==
    [FailedAfter(0) EXCEPT !.id = id,
                           !.createdById = userId,
                           !.documentIds = RequestOf(userId).documentIds,
                           !.externalJobId = Some(<<id - 1, "k3x">>)]

InitOwner ==
    /\ jobs = <<FailedJobOf(1, 1), FailedJobOf(2, 2)>>
    /\ requests = <<RequestOf(1), RequestOf(2)>>
    /\ calls = <<>>
    /\ execs = <<>>
    /\ response = NoResponse
    /\ now = 2

\* The ids a caller may name: those of the stored jobs and one that is not stored.
JobIdInputs == 1..(Len(jobs) + 1)

\* The awaits of retryJob.
ContinueRetry(c) ==
    \/ RetrySave(c)
    \/ RetryFindDocuments(c)
    \/ ReturnFindOne(c)

NextOwner ==
    \/ \E id \in JobIdInputs, userId \in Users : FindOne(id, userId)
    \/ \E id \in JobIdInputs, userId \in Users :
          RetryJob(userId, id, Quiescent /\ Len(calls) < MaxRetryCalls)
    \/ \E c \in CallIds : ContinueRetry(c)
    \/ \E c \in CallIds : Process(c)

SpecOwner == InitOwner /\ [][NextOwner]_vars

FindAll(userId, page, limit) ==
    /\ response' = FindAllResult(userId, page, limit)
    /\ UNCHANGED <<jobs, requests, calls, execs, now>>

\* The tables findAll is asked about: up to MaxTable jobs at rest, created by
\* the owner of document 1 except for some of the jobs in Interleaved, which
\* the other user created in between.
Interleaved == {2, 5}
Tables ==
    {[id \in 1..n |-> IF id \in others THEN 2 ELSE Owner] :
        n \in 0..MaxTable, others \in SUBSET Interleaved}

InitFindAll ==
    /\ \E owners \in Tables :
          /\ jobs = [id \in DOMAIN owners |-> FailedJobOf(id, owners[id])]
          /\ requests = [id \in DOMAIN owners |-> RequestOf(owners[id])]
          /\ now = Len(owners)
    /\ calls = <<>>
    /\ execs = <<>>
    /\ response = NoResponse

Pages == 1..MaxPage
\* Page sizes: small ones, the one of the scenario with 7 jobs, the default.
Limits == {1, 2, 5, 10}

NextFindAll ==
    \E userId \in Users, page \in Pages, limit \in Limits : FindAll(userId, page, limit)

SpecFindAll == InitFindAll /\ [][NextFindAll]_vars

\* The place of a job among those of its creator, the newest being first.
RankAmongOwn(id) ==
    Cardinality({other \in JobIds : /\ jobs[other].createdById = jobs[id].createdById
                                     /\ other >= id})

\* C23: findAll(userId, page, limit) returns only jobs created by userId,
\* newest first, namely those at places (page-1)*limit+1 .. page*limit of that
\* order; total counts the user's jobs and totalPages is total / limit rounded
\* up; with 7 jobs, page 2 and limit 5 it returns 2 jobs, total 7, totalPages 2.
C23_FindAllPage ==
    [][\A userId \in Users, page \in Pages, limit \in Limits :
          FindAll(userId, page, limit) =>
            LET mine == {id \in JobIds : jobs[id].createdById = userId}
                first == (page - 1) * limit + 1
                last == page * limit
                r == response'
            IN  /\ r.op = "findAll" /\ r.error = "none"
                /\ \A i \in 1..Len(r.jobs) :
                      /\ r.jobs[i] = jobs[r.jobs[i].id]
                      /\ r.jobs[i].createdById = userId
                      /\ RankAmongOwn(r.jobs[i].id) = first + i - 1
                /\ Len(r.jobs) =
                      Cardinality({id \in mine : RankAmongOwn(id) \in first..last})
                /\ r.total = Cardinality(mine)
                /\ r.totalPages * limit >= r.total
                /\ (r.totalPages - 1) * limit < r.total \/ (r.total = 0 /\ r.totalPages = 0)
                /\ r.page = page /\ r.limit = limit
                /\ Cardinality(mine) = 7 /\ page = 2 /\ limit = 5 =>
                      Len(r.jobs) = 2 /\ r.total = 7 /\ r.totalPages = 2]_vars

\* The second page of five has been returned to a user with 7 jobs.
C23_Witness ==
    /\ response.op = "findAll"
    /\ response.page = 2 /\ response.limit = 5
    /\ response.total = 7
    /\ Len(response.jobs) = 2

\* C24: once a job is stored, no step changes its id, type, createdById or
\* documentIds; its externalJobId is unset at the insert, is set by the first
\* write to the row after the insert, and keeps that value in every later write.
C24_FixedFields ==
    [][\A id \in JobIds :
          /\ jobs'[id].id = jobs[id].id
          /\ jobs'[id].type = jobs[id].type
          /\ jobs'[id].createdById = jobs[id].createdById
          /\ jobs'[id].documentIds = jobs[id].documentIds
          /\ IsSet(jobs[id].externalJobId) => jobs'[id].externalJobId = jobs[id].externalJobId
          /\ ~IsSet(jobs[id].externalJobId) /\ jobs'[id] # jobs[id]
                => IsSet(jobs'[id].externalJobId)]_vars

\* A retried job is being executed again and carries its external job id.
C24_Witness ==
    \E id \in JobIds :
        /\ IsSet(jobs[id].externalJobId)
        /\ jobs[id].retryCount = 1
        /\ jobs[id].status = PROCESSING
        /\ jobs[id].progress > 0

(***************************************************************************)
(* Executions that fail, by a result with success false or by an exception *)
(* inside processJob; requests arrive one at a time.                       *)
(***************************************************************************)
\* The errors an awaited call may reject with: one with a message, one without.
ThrownErrors == {[message |-> Some("connection lost")], [message |-> Some("")]}

\* The awaits of triggerIngestion and retryJob.
ContinueCall(c) ==
    \/ \E suffix \in RandomSuffixes : TriggerInsert(c, suffix)
    \/ TriggerSaveExternalId(c)
    \/ RetrySave(c)
    \/ RetryFindDocuments(c)
    \/ ReturnFindOne(c)

NextFailure ==
    \/ NoRequestYet /\ \E dto \in TriggerDtos : TriggerIngestion(Owner, dto, TRUE)
    \/ \E id \in JobIds :
          RetryJob(Owner, id, Quiescent /\ Len(calls) < 1 + MaxRetryCalls)
    \/ \E c \in CallIds : ContinueCall(c)
    \/ \E c \in CallIds : Process(c)
    \/ \E c \in CallIds, error \in ThrownErrors : ProcessThrow(c, error)

SpecFailure == Init /\ [][NextFailure]_vars

C26_ExecutionPersistOrder ==
    [][\A c \in CallIds :
          LET id == execs[c].job.id IN
          /\ ProcessSaveStart(c) =>
                /\ jobs'[id].status = PROCESSING
                /\ IsSet(jobs'[id].startedAt)
                /\ execs'[c].pc = "saveProgress" /\ execs'[c].step = 0
          /\ ProcessSaveProgress(c) =>
                /\ execs[c].step \in 0..9
                /\ jobs'[id].status = PROCESSING
                /\ jobs'[id].progress = 10 * (execs[c].step + 1)
                /\ execs'[c].step = execs[c].step + 1
                /\ execs'[c].pc = IF execs[c].step < 9 THEN "saveProgress"
                                  ELSE "processDocuments"
          /\ (\E result \in ProcessingResults : ProcessResult(c, result)) =>
                /\ execs[c].step = 10
                /\ jobs' = jobs
                /\ execs'[c].pc = "saveFinal"
          /\ ProcessSaveFinal(c) =>
                /\ jobs'[id].status \in {COMPLETED, FAILED}
                /\ execs'[c].pc = "done"
          /\ execs[c].pc = "done" => execs'[c].pc = "done"]_vars

\* An execution has made all its persists and ended with the job completed.
C26_Witness ==
    \E c \in CallIds, id \in JobIds :
        /\ execs[c].pc = "done"
        /\ jobs[id].status = COMPLETED
        /\ jobs[id].progress = 100
        /\ IsSet(jobs[id].startedAt)

\* C27: a job's stored progress is 100 only when the job is completed.
C27_FullProgressOnlyWhenCompleted ==
    \A id \in JobIds : jobs[id].progress = 100 => jobs[id].status = COMPLETED

(***************************************************************************)
(* Retries and failure reports while earlier executions of the job are     *)
(* still running; requests arrive one at a time, executions overlap.       *)
(***************************************************************************)
\* The request: one retry allowed.
OneRetryDto == [type |-> "ocr", documentIds |-> <<1>>, maxRetries |-> Some(1)]

\* No request is in flight; executions may be.
NoCallInFlight == \A c \in CallIds : calls[c] = Answered

NextStale ==
    \/ NoRequestYet /\ TriggerIngestion(Owner, OneRetryDto, TRUE)
    \/ \E id \in JobIds :
          RetryJob(Owner, id, NoCallInFlight /\ Len(calls) < 2 + MaxRetryCalls)
    \/ \E externalJobId \in ExternalIds :
          UpdateJobStatus(externalJobId, FailedUpdate,
                          NoCallInFlight /\ Len(calls) < 2 + MaxRetryCalls)
    \/ \E c \in CallIds : Continue(c)
    \/ \E c \in CallIds : ProcessFailing(c)

SpecStale == Init /\ [][NextStale]_vars

\* The executions started so far for job id, the one job this model follows:
\* the requests that created or retried it and have started processJob.
ExecutionsStarted(id) ==
    {c \in CallIds : execs[c].pc # "none"}

\* C28: for every job, the executions ever started number at most
\* 1 + maxRetries, whatever the interleaving of retries, status updates and the
\* persists of executions still in flight.
C28_ExecutionsBounded ==
    \A id \in JobIds : Cardinality(ExecutionsStarted(id)) <= 1 + jobs[id].maxRetries

\* C29: a status update persisted while an execution of the job is in flight
\* is not lost: a persist of the execution that follows it leaves the status,
\* errorMessage, outputData and nextRetryAt the update stored.
C29_StatusUpdateNotLost ==
    [][\A c \in CallIds :
          (/\ response.op = "webhook" /\ response.error = "none"
           /\ ProcessSaveStart(c) \/ ProcessSaveProgress(c) \/ ProcessSaveFinal(c))
          => LET id == execs[c].job.id IN
             /\ jobs'[id].status = jobs[id].status
             /\ jobs'[id].errorMessage = jobs[id].errorMessage
             /\ jobs'[id].outputData = jobs[id].outputData
             /\ jobs'[id].nextRetryAt = jobs[id].nextRetryAt]_vars

\* C30: a trigger is accepted whenever every id of its documentIds resolves to
\* a document of the caller, also when an id is named more than once; it is
\* refused only when some id does not resolve or some document is another user's.
C30_TriggerAcceptsOwnDocuments ==
    [][\A userId \in Users, dto \in WideTriggerDtos :
          TriggerIngestion(userId, dto, TRUE) =>
            LET refused == response'.op = "trigger" /\ response'.error # "none"
                accepted == /\ Len(calls') = Len(calls) + 1
                            /\ calls'[Len(calls')].op = "trigger"
            IN  /\ refused <=> \/ SomeIdUnresolved(dto.documentIds)
                               \/ SomeDocumentForeign(dto.documentIds, userId)
                /\ accepted <=> ~refused]_vars

============================================================================
